---- MODULE Spec2Model ----
(***************************************************************************)
(* Model of the symbol catalog (StockDataManager, stock_data_manager.py)   *)
(* and of the selection handling of the report window (StockReport,        *)
(* visualizer.py).                                                         *)
(*                                                                         *)
(* Python values are represented with one TLA+ type per kind of value:     *)
(*   - the string "None" stands for Python's None (JSON null);             *)
(*   - a dict is [shape, keys, val]: keys is the insertion order, val the  *)
(*     mapping; shape is "dict", or "null"/"num" when the attribute holds  *)
(*     a value of the wrong type read from a cache file;                   *)
(*   - a list is [shape, items] in the same way;                           *)
(*   - the cache file is represented by what json.load returns for it.     *)
(***************************************************************************)
EXTENDS Integers, Sequences, FiniteSets, TLC

VARIABLES stocks, symbols, file, alive, last, pristine,
          report_stocks, selected_stock, dropdown, view

vars == <<stocks, symbols, file, alive, last, pristine,
          report_stocks, selected_stock, dropdown, view>>

catalogVars == <<stocks, symbols, file, alive, last, pristine>>
viewVars == <<report_stocks, selected_stock, dropdown, view>>

----------------------------------------------------------------------------
(* Bounds *)

\* longest item list of an API response
MaxItems == 2

\* longest display list of the report window
MaxStocks == 3

----------------------------------------------------------------------------
(* Values *)

NONE == "None"

Range(s) == {s[i] : i \in 1..Len(s)}

NoDuplicates(s) == \A i, j \in 1..Len(s) : s[i] = s[j] => i = j

SeqsUpTo(S, n) == UNION {[1..k -> S] : k \in 0..n}

EmptyFn == [x \in {} |-> NONE]

\* self.stocks = {}
EmptyDict == [shape |-> "dict", keys |-> <<>>, val |-> EmptyFn]

\* self.symbols = []
EmptyList == [shape |-> "list", items |-> <<>>]

\* a value that is not a mapping / not a list: JSON null or a JSON number
WrongDict(sh) == [shape |-> sh, keys |-> <<>>, val |-> EmptyFn]
WrongList(sh) == [shape |-> sh, items |-> <<>>]

List(s) == [shape |-> "list", items |-> s]

\* d[k] = v on a Python dict: a new key goes last, an existing key keeps its place
DictPut(d, k, v) ==
    [shape |-> "dict",
     keys  |-> IF k \in Range(d.keys) THEN d.keys ELSE Append(d.keys, k),
     val   |-> [x \in (DOMAIN d.val) \cup {k} |-> IF x = k THEN v ELSE d.val[x]]]

----------------------------------------------------------------------------
(* API responses *)

\* one element of the response list that is a JSON object; an absent field is
\* what item.get returns for it
Item(code, name) ==
    [isDict |-> TRUE, Code |-> code, Name |-> name, Country |-> "USA",
     Exchange |-> "NASDAQ", Currency |-> "USD", Type |-> "Common Stock",
     Isin |-> NONE]

\* an element that is not a JSON object (item.get raises)
BadItem ==
    [isDict |-> FALSE, Code |-> NONE, Name |-> NONE, Country |-> NONE,
     Exchange |-> NONE, Currency |-> NONE, Type |-> NONE, Isin |-> NONE]

\* the second record repeats a Code with another Name; the third has no Code
GoodItems == {Item("A", "n1"), Item("A", "n2"), Item(NONE, "n1")}

\* the item lists of a response: the elements after one that raises are never
\* read, so such an element is kept only in last place
ItemLists ==
    SeqsUpTo(GoodItems, MaxItems)
    \cup {Append(s, BadItem) : s \in SeqsUpTo(GoodItems, MaxItems - 1)}

NoFetch == [kind |-> "nofetch", items |-> <<>>]

\* what requests.get / response.json() can produce
Outcomes ==
    {[kind |-> "ok200", items |-> s] : s \in ItemLists}
    \cup {[kind |-> "non200", items |-> <<>>],
          [kind |-> "exception", items |-> <<>>]}

\* datetime.now().isoformat(): a timestamp later than t, the one of the file
\* being overwritten (two values after "t0" are told apart)
Now(t) == IF t = "t1" THEN "t2" ELSE "t1"

----------------------------------------------------------------------------
(* _fetch_from_api *)

\* the seven-field record of lines 69-77
RecordOf(item) ==
    [Code |-> item.Code, Name |-> item.Name, Country |-> item.Country,
     Exchange |-> item.Exchange, Currency |-> item.Currency,
     Type |-> item.Type, Isin |-> item.Isin]

\* the loop of lines 67-77 followed by self.stocks.keys() of line 79:
\* ok is FALSE when an exception left the loop (or line 79) early
RECURSIVE Ingest(_, _)
Ingest(d, items) ==
    IF d.shape # "dict" THEN [stocks |-> d, ok |-> FALSE]
    ELSE IF items = <<>> THEN [stocks |-> d, ok |-> TRUE]
    ELSE LET item == Head(items) IN
         IF ~item.isDict THEN [stocks |-> d, ok |-> FALSE]
         ELSE Ingest(DictPut(d, item.Code, RecordOf(item)), Tail(items))

\* a variant of _fetch_from_api that extends self.symbols with the keys instead
\* of replacing it
FetchFromApiExtend(st, sy, outcome) ==
    IF outcome.kind = "ok200"
    THEN LET r == Ingest(st, outcome.items) IN
         [stocks  |-> r.stocks,
          symbols |-> IF r.ok THEN List(sy.items \o r.stocks.keys) ELSE sy,
          ingested |-> r.ok]
    ELSE [stocks |-> st, symbols |-> sy, ingested |-> FALSE]

\* _fetch_from_api started with attributes st, sy: the attributes after it
FetchFromApi(st, sy, outcome) ==
    IF outcome.kind = "ok200"
    THEN LET r == Ingest(st, outcome.items) IN
         [stocks  |-> r.stocks,
          symbols |-> IF r.ok THEN List(r.stocks.keys) ELSE sy,
          ingested |-> r.ok]
    ELSE [stocks |-> st, symbols |-> sy, ingested |-> FALSE]

----------------------------------------------------------------------------
(* The cache file *)

AbsentFile ==
    [kind |-> "absent", hasStocks |-> FALSE, stocks |-> EmptyDict,
     hasSymbols |-> FALSE, symbols |-> EmptyList, cached_at |-> "t0"]

\* exists, but json.load raises (truncated, not JSON)
CorruptFile == [AbsentFile EXCEPT !.kind = "corrupt"]

\* valid JSON whose top level is not an object
NonObjectFile == [AbsentFile EXCEPT !.kind = "nonobject"]

ObjectFile(hasSt, st, hasSy, sy, t) ==
    [kind |-> "object", hasStocks |-> hasSt, stocks |-> st,
     hasSymbols |-> hasSy, symbols |-> sy, cached_at |-> t]

\* json.dump writes a dict key None as the string "null"
JsonKey(k) == IF k = NONE THEN "null" ELSE k

\* the dict json.load returns for what json.dump wrote for d
RECURSIVE JsonDictFrom(_, _, _)
JsonDictFrom(acc, d, ks) ==
    IF ks = <<>> THEN acc
    ELSE JsonDictFrom(DictPut(acc, JsonKey(Head(ks)), d.val[Head(ks)]), d, Tail(ks))

JsonDict(d) == IF d.shape = "dict" THEN JsonDictFrom(EmptyDict, d, d.keys) ELSE d

SaveToCache(st, sy, t) == ObjectFile(TRUE, JsonDict(st), TRUE, sy, t)

\* _load_from_cache: the attributes after the call
LoadFromCache(st, sy, f) ==
    IF f.kind = "object"
    THEN [stocks  |-> IF f.hasStocks THEN f.stocks ELSE EmptyDict,
          symbols |-> IF f.hasSymbols THEN f.symbols ELSE EmptyList]
    ELSE [stocks |-> st, symbols |-> sy]

----------------------------------------------------------------------------
(* load_symbols *)

\* Bookkeeping of the last call, for stating properties: last.op is the call
\* ("construct", "load", "refresh"), last.force its force_refresh, last.outcome
\* what the symbol-list request returned (NoFetch when none was made),
\* last.netCalls the number of requests.get calls it made, last.raised whether an
\* exception left it, last.preKind the kind of cache file it found, last.repeat
\* whether it is a refresh that directly follows a refresh with the same
\* outcome.  pristine: no cache file existed initially and no fetch has yet
\* returned 200 and been ingested to the end.

\* a variant of line 22 that ignores force_refresh
UseCacheAlways(force, f) == f.kind # "absent"

\* line 22
UseCache(force, f) == ~force /\ f.kind # "absent"

\* len(self.symbols) of line 30 raises on a value without a length
LenRaises(sy) == sy.shape # "list"

\* load_symbols, lines 23-24 and 30: the cache branch
LoadBranch(op, st, sy, force) ==
    /\ UseCache(force, file)
    /\ LET r == LoadFromCache(st, sy, file) IN
        /\ stocks' = r.stocks
        /\ symbols' = r.symbols
        /\ last' = [op |-> op, force |-> force, outcome |-> NoFetch,
                    netCalls |-> 0, raised |-> LenRaises(r.symbols),
                    preKind |-> file.kind, repeat |-> FALSE]
        /\ alive' = IF op = "construct" THEN ~LenRaises(r.symbols) ELSE alive
    /\ file' = file
    /\ pristine' = pristine

\* load_symbols, lines 26-28 and 30: the fetch branch; the timestamp written
\* is later than the one in the file
FetchBranch(op, st, sy, force) ==
    /\ ~UseCache(force, file)
    /\ \E outcome \in Outcomes :
        LET r == FetchFromApi(st, sy, outcome)
            t == Now(file.cached_at) IN
        /\ stocks' = r.stocks
        /\ symbols' = r.symbols
        /\ file' = SaveToCache(r.stocks, r.symbols, t)
        /\ pristine' = (pristine /\ ~r.ingested)
        /\ last' = [op |-> op, force |-> force, outcome |-> outcome,
                    netCalls |-> 1, raised |-> LenRaises(r.symbols),
                    preKind |-> file.kind,
                    repeat |-> (op = "refresh" /\ last.op = "refresh"
                                /\ last.outcome = outcome)]
        /\ alive' = IF op = "construct" THEN ~LenRaises(r.symbols) ELSE alive

\* load_symbols(force) started with attributes st, sy
LoadSymbols(op, st, sy, force) ==
    LoadBranch(op, st, sy, force) \/ FetchBranch(op, st, sy, force)

\* StockDataManager(force_refresh)
Construct ==
    \E force \in BOOLEAN :
        /\ LoadSymbols("construct", EmptyDict, EmptyList, force)
        /\ UNCHANGED viewVars

\* manager.load_symbols(force_refresh)
LoadSymbolsCall ==
    \E force \in BOOLEAN :
        /\ alive
        /\ LoadSymbols("load", stocks, symbols, force)
        /\ UNCHANGED viewVars

\* manager.refresh_symbols()
RefreshSymbols ==
    /\ alive
    /\ LoadSymbols("refresh", stocks, symbols, TRUE)
    /\ UNCHANGED viewVars

get_symbols == symbols

get_stock_info(symbol) ==
    IF symbol \in DOMAIN stocks.val THEN stocks.val[symbol] ELSE EmptyFn

----------------------------------------------------------------------------
(* Initial states: no manager yet, any cache file in the working directory *)

RecA == RecordOf(Item("A", "n1"))

DictA == DictPut(EmptyDict, "A", RecA)

\* the cache files a start can find: none, an unparseable one, a JSON document
\* that is not an object, and objects whose stocks and symbols are a catalog as
\* saved, an inconsistent pair, values of the wrong type, or absent
InitFiles ==
    {AbsentFile, CorruptFile, NonObjectFile,
     ObjectFile(TRUE, EmptyDict, TRUE, EmptyList, "t0"),
     ObjectFile(TRUE, DictA, TRUE, List(<<"A">>), "t0"),
     ObjectFile(TRUE, DictA, TRUE, List(<<"B", "A">>), "t0"),
     ObjectFile(TRUE, DictA, TRUE, WrongList("null"), "t0"),
     ObjectFile(TRUE, EmptyDict, TRUE, WrongList("num"), "t0"),
     ObjectFile(TRUE, WrongDict("null"), TRUE, List(<<"A">>), "t0"),
     ObjectFile(FALSE, EmptyDict, TRUE, List(<<"A">>), "t0"),
     ObjectFile(TRUE, DictA, FALSE, EmptyList, "t0")}

NoOp == [op |-> "none", force |-> FALSE, outcome |-> NoFetch,
         netCalls |-> 0, raised |-> FALSE, preKind |-> "absent",
         repeat |-> FALSE]

ViewIdle == [handler |-> "none", fault |-> FALSE]

\* the combobox: its values and the text of stock_var
NoDropdown == [values |-> <<>>, stock_var |-> ""]

Init ==
    /\ stocks = EmptyDict
    /\ symbols = EmptyList
    /\ file \in InitFiles
    /\ alive = FALSE
    /\ last = NoOp
    /\ pristine = (file.kind = "absent")
    /\ report_stocks = <<>>
    /\ selected_stock = 0
    /\ dropdown = NoDropdown
    /\ view = ViewIdle

Next == Construct \/ LoadSymbolsCall \/ RefreshSymbols

Spec == Init /\ [][Next]_vars

----------------------------------------------------------------------------
(* StockReport: the display list and the selection handler *)

\* the price series a caller passes to add_stock; generate_historical_data
\* returns a non-empty one
PriceSeries == {<<>>, <<99, 100>>}

Entry(symbol, prices) ==
    [symbol |-> symbol, price |-> 100, change |-> 0, volume |-> 0,
     market_cap |-> "N/A", historical_prices |-> prices]

\* the symbols a caller adds: those of the catalog and one it does not hold
AddableSymbols == Range(symbols.items) \cup {"X"}

\* update_display with self.stocks = list and self.selected_stock = sel:
\* line 107 raises on an index out of range, min(prices) of line 155 on an
\* empty series
UpdateDisplayRaises(list, sel) ==
    \/ sel + 1 \notin 1..Len(list)
    \/ list[sel + 1].historical_prices = <<>>

\* the idx of the loop of lines 95-96 (0-based), or -1 when the loop ends
FirstIndex(list, symbol) ==
    IF \E i \in 1..Len(list) : list[i].symbol = symbol
    THEN (CHOOSE i \in 1..Len(list) :
            /\ list[i].symbol = symbol
            /\ \A j \in 1..(i - 1) : list[j].symbol # symbol) - 1
    ELSE -1

\* StockReport defines the method on_stock_selected calls at line 103
HasLoadStockFromMemory == FALSE

\* StockDataManager defines the method fetch_and_add_stock calls at line 203
HasFetchStockData == FALSE

\* report.add_stock(symbol, ..., historical_prices)
AddStock ==
    \E symbol \in AddableSymbols, prices \in PriceSeries :
        /\ Len(report_stocks) < MaxStocks
        /\ report_stocks' = Append(report_stocks, Entry(symbol, prices))
        /\ view' = [handler |-> "add_stock", fault |-> FALSE]
        /\ UNCHANGED <<selected_stock, dropdown>>
        /\ UNCHANGED catalogVars

\* report.populate_dropdown(available_symbols), as main calls it with
\* get_symbols(), or with no argument
PopulateDropdown ==
    \E available_symbols \in {symbols.items, <<>>} :
        /\ IF available_symbols # <<>>
           THEN /\ dropdown' = [values |-> available_symbols,
                                stock_var |-> available_symbols[1]]
                /\ view' = [handler |-> "populate_dropdown", fault |-> FALSE]
                /\ UNCHANGED selected_stock
           ELSE LET syms == [i \in 1..Len(report_stocks) |-> report_stocks[i].symbol] IN
                IF syms # <<>>
                THEN /\ dropdown' = [values |-> syms, stock_var |-> syms[1]]
                     /\ selected_stock' = 0
                     /\ view' = [handler |-> "populate_dropdown",
                                 fault |-> UpdateDisplayRaises(report_stocks, 0)]
                ELSE /\ dropdown' = [values |-> syms, stock_var |-> dropdown.stock_var]
                     /\ view' = [handler |-> "populate_dropdown", fault |-> FALSE]
                     /\ UNCHANGED selected_stock
        /\ UNCHANGED report_stocks
        /\ UNCHANGED catalogVars

\* the user picks selected_symbol in the combobox: on_stock_selected(event)
OnStockSelected ==
    \E selected_symbol \in Range(dropdown.values) :
        LET idx == FirstIndex(report_stocks, selected_symbol) IN
        /\ dropdown' = [dropdown EXCEPT !.stock_var = selected_symbol]
        /\ IF idx >= 0
           THEN /\ selected_stock' = idx
                /\ view' = [handler |-> "on_stock_selected",
                            fault |-> UpdateDisplayRaises(report_stocks, idx)]
                /\ UNCHANGED report_stocks
           ELSE \* line 103: AttributeError, StockReport has no such method
                /\ ~HasLoadStockFromMemory
                /\ view' = [handler |-> "on_stock_selected", fault |-> TRUE]
                /\ UNCHANGED <<report_stocks, selected_stock>>
        /\ UNCHANGED catalogVars

\* report.fetch_and_add_stock(symbol): line 203 raises AttributeError, which
\* line 213 catches
FetchAndAddStock ==
    \E symbol \in AddableSymbols :
        /\ ~HasFetchStockData
        /\ view' = [handler |-> "fetch_and_add_stock", fault |-> FALSE]
        /\ UNCHANGED <<report_stocks, selected_stock, dropdown>>
        /\ UNCHANGED catalogVars

\* main: the manager is constructed, then the window is created when the
\* catalog is not empty
ViewSeeds ==
    {<<Item("A", "n1")>>, <<Item("A", "n1"), Item("B", "n1")>>}

ViewInit ==
    \E items \in ViewSeeds :
        LET outcome == [kind |-> "ok200", items |-> items]
            r == FetchFromApi(EmptyDict, EmptyList, outcome) IN
        /\ stocks = r.stocks
        /\ symbols = r.symbols
        /\ file = SaveToCache(r.stocks, r.symbols, Now("t0"))
        /\ alive = TRUE
        /\ last = [op |-> "construct", force |-> FALSE, outcome |-> outcome,
                   netCalls |-> 1, raised |-> FALSE, preKind |-> "absent",
                   repeat |-> FALSE]
        /\ pristine = FALSE
        /\ report_stocks = <<>>
        /\ selected_stock = 0
        /\ dropdown = NoDropdown
        /\ view = ViewIdle

ViewNext == AddStock \/ PopulateDropdown \/ OnStockSelected \/ FetchAndAddStock

ViewSpec == ViewInit /\ [][ViewNext]_vars

----------------------------------------------------------------------------
(* Properties *)

\* the distinct Codes of an item list, in order of first occurrence
RECURSIVE DistinctCodes(_)
DistinctCodes(items) ==
    IF items = <<>> THEN <<>>
    ELSE LET front == SubSeq(items, 1, Len(items) - 1)
             code == items[Len(items)].Code
             rest == DistinctCodes(front) IN
         IF code \in Range(rest) THEN rest ELSE Append(rest, code)

\* the last item of the list that carries the code
LastItemWith(items, code) ==
    items[CHOOSE i \in 1..Len(items) :
            /\ items[i].Code = code
            /\ \A j \in (i + 1)..Len(items) : items[j].Code # code]

AllRecords(items) == \A i \in 1..Len(items) : items[i].isDict

Fetched == last.netCalls = 1

NonForced == last.op \in {"construct", "load"} /\ ~last.force

\* a cache file holding a JSON object with a mapping and a list
ValidCache(f) ==
    /\ f.kind = "object"
    /\ f.hasStocks /\ f.stocks.shape = "dict"
    /\ f.hasSymbols /\ f.symbols.shape = "list"

\* C1: in every state the symbol sequence and the key set of the mapping are
\* equal, and the sequence has no duplicates
C1_PairConsistent ==
    /\ Range(symbols.items) \subseteq Range(stocks.keys)
    /\ Range(stocks.keys) \subseteq Range(symbols.items)
    /\ NoDuplicates(symbols.items)

\* C2: a non-forced load that finds a valid cache file makes no network call
\* and adopts the file's symbols and stocks; a forced load (a refresh included)
\* makes exactly one network call, with or without a cache file
C2_CachePrecedence ==
    /\ (NonForced /\ last.preKind # "absent" /\ ValidCache(file))
          => /\ last.netCalls = 0
             /\ stocks = file.stocks
             /\ symbols = file.symbols
    /\ (last.op # "none" /\ last.force) => last.netCalls = 1

\* C2 witness: a non-forced load has adopted a valid, non-empty cache file
\* that an earlier fetch of this run wrote
C2_Witness ==
    /\ last.op = "load" /\ ~last.force
    /\ ValidCache(file) /\ file.cached_at # "t0"
    /\ symbols.items # <<>>
    /\ symbols = file.symbols
    /\ last.netCalls = 0

\* C3: when the last symbol-list fetch received a non-200 status, no exception
\* left the call and get_symbols() returns the empty sequence
C3_Degradation ==
    (Fetched /\ last.outcome.kind = "non200")
        => (~last.raised /\ get_symbols = EmptyList)

\* C4: after a fetch that returned 200 with a list of records, get_symbols() is
\* the list of the distinct Codes of the response in order of first occurrence
\* and get_stock_info(code) is the record of the last item with that Code
C4_DeterminedByResponse ==
    (Fetched /\ last.outcome.kind = "ok200" /\ AllRecords(last.outcome.items))
        => LET items == last.outcome.items IN
           /\ get_symbols = List(DistinctCodes(items))
           /\ \A code \in Range(DistinctCodes(items)) :
                 get_stock_info(code) = RecordOf(LastItemWith(items, code))

\* C5: for a catalog reached through a fetch, saving it and loading the file
\* into a fresh catalog gives back the same sequence and the same mapping
C5_RoundTrip ==
    Fetched
        => LET f == SaveToCache(stocks, symbols, Now(file.cached_at))
               r == LoadFromCache(EmptyDict, EmptyList, f) IN
           /\ r.symbols = symbols
           /\ r.stocks = stocks

\* C6: a refresh that directly follows a refresh with the same upstream
\* response leaves the stocks and symbols of the cache file as they were
C6_RefreshIdempotent ==
    [][last'.repeat => (file'.stocks = file.stocks /\ file'.symbols = file.symbols)]_vars

\* C6 witness: the second of two refreshes that received the same two-item
\* response, fully ingested, has rewritten the file with a later timestamp
C6_Witness ==
    /\ last.op = "refresh" /\ last.repeat
    /\ last.outcome.kind = "ok200"
    /\ Len(last.outcome.items) = 2 /\ AllRecords(last.outcome.items)
    /\ Len(file.symbols.items) >= 2
    /\ file.cached_at = "t1"

\* C7: starting with no cache file, the file exists only if some earlier
\* fetch returned 200 and was ingested
C7_CreatedOnlyBySuccess ==
    pristine => file.kind = "absent"

\* the cache branch ran and _load_from_cache ended in its except clause
LoadFailed ==
    /\ last.netCalls = 0 /\ last.op # "none"
    /\ \/ last.preKind \in {"corrupt", "nonobject"}
       \/ last.preKind = "object" /\ file.hasSymbols /\ file.symbols.shape # "list"

\* C8: construction and load_symbols(force_refresh=false) return normally for
\* every cache-file content, and after a failed load the catalog is empty
C8_LoadNeverThrows ==
    NonForced
        => /\ ~last.raised
           /\ LoadFailed => (stocks = EmptyDict /\ symbols = EmptyList)

\* C9: a non-forced load that finds an unparseable cache file makes a network
\* call to the symbol-list endpoint in that same call
C9_CorruptForcesRefetch ==
    (NonForced /\ last.preKind = "corrupt") => last.netCalls = 1

\* C10: handling the selection of an offered symbol ends without a fault and
\* leaves the selected index on an entry of the display list for that symbol
C10_SelectionHandled ==
    view.handler = "on_stock_selected"
        => /\ ~view.fault
           /\ selected_stock + 1 \in 1..Len(report_stocks)
           /\ report_stocks[selected_stock + 1].symbol = dropdown.stock_var

====
